---- MODULE Spec2Model ----
(***************************************************************************)
(* scripts/organize-root.py: main() walks FILE_MAPPINGS in order and, for  *)
(* every (filename, subdir) whose source exists at the project root,       *)
(* creates the destination directory under docs and shutil.move()s the     *)
(* file there, printing one notice per entry and a summary line.           *)
(*                                                                         *)
(* The filesystem is a function from the paths that exist (sequences of    *)
(* names below the project root) to what is there: DIR for a directory,    *)
(* the content of a regular file otherwise.  Path.exists, Path.mkdir and   *)
(* shutil.move are modelled by what CPython's pathlib and shutil do.       *)
(***************************************************************************)
EXTENDS Integers, Sequences, FiniteSets, TLC

\* Number of table files (the first MaxPresent of Candidates) that may be
\* present at the root, or have something at their destination, initially.
MaxPresent == 3

\* The same number for the specification of two runs.
MaxRerunPresent == 2

FILE_MAPPINGS == <<
    <<"SETUP_COMPLETE.md", "setup">>,
    <<"SECRETS_SETUP_COMPLETE.md", "setup">>,
    <<"BROWSER_SETUP_GUIDE.md", "setup">>,
    <<"START_HERE.md", "setup">>,
    <<"GITHUB_SECRETS_TO_ADD.md", "setup">>,
    <<"GITHUB_SECRETS_VALUES.md", "setup">>,
    <<"JWT_SECRET.txt", "setup">>,
    <<"JWT_SECRET_GENERATED.txt", "setup">>,
    <<"GENERATED_SECRETS.txt", "setup">>,
    <<"CI_CD_READY.md", "ci-cd">>,
    <<"CICD_CONFIGURATION_COMPLETE.md", "ci-cd">>,
    <<"CICD_SETUP.md", "ci-cd">>,
    <<"README_CI_CD.md", "ci-cd">>,
    <<"TEST_CI_WORKFLOW.md", "ci-cd">>,
    <<"WORKFLOWS_TRIGGERED.md", "ci-cd">>,
    <<"WORKFLOW_TEST_STATUS.md", "ci-cd">>,
    <<"FRONTEND_MIGRATION_COMPLETE.md", "status">>,
    <<"SECURITY_ENHANCEMENTS_COMPLETE.md", "status">>,
    <<"SECURITY_INTEGRATION_COMPLETE.md", "status">>,
    <<"SECURITY_INTEGRATION_EXTENDED.md", "status">>,
    <<"SECURITY_INTEGRATION_FINAL.md", "status">>,
    <<"PERFORMANCE_MONITORING_COMPLETE.md", "status">>,
    <<"PERFORMANCE_MONITORING_SUMMARY.md", "status">>,
    <<"BROWSER_STATUS.md", "status">>,
    <<"BROWSER_STATUS_REPORT.md", "status">>,
    <<"BROWSER_CHECK_SUMMARY.md", "status">>,
    <<"DOCUMENTATION_ORGANIZATION_COMPLETE.md", "status">>,
    <<"DOCUMENTATION_ORGANIZATION_STATUS.md", "status">>,
    <<"ORGANIZATION_VERIFICATION.md", "status">>,
    <<"NEXT_STEPS_ROADMAP.md", "roadmap">>,
    <<"NEXT_ACTIONS.md", "roadmap">>,
    <<"PROJECT_IMPROVEMENTS.md", "roadmap">>,
    <<"FOLDER_STRUCTURE_ASSESSMENT.md", "assessment">>,
    <<"QUICK_FIX_DUPLICATE_COMPONENTS.md", "">>,
    <<"VALIDATION_MIDDLEWARE_SUMMARY.md", "">>
>>

\* len(FILE_MAPPINGS), the number of iterations of main()'s loop.
NumEntries == Len(FILE_MAPPINGS)

\* Paths are sequences of names below the project root; ROOT is the root.
ROOT == << >>

DOCS == ROOT \o <<"docs">>

\* What the filesystem holds at a path that is a directory.
DIR == "<dir>"

Filename(k) == FILE_MAPPINGS[k][1]

Subdir(k) == FILE_MAPPINGS[k][2]

\* source = ROOT / filename
Source(k) == ROOT \o <<Filename(k)>>

\* dest_dir = DOCS / subdir if subdir else DOCS
DestDir(k) == IF Subdir(k) # "" THEN DOCS \o <<Subdir(k)>> ELSE DOCS

\* dest = dest_dir / filename
Dest(k) == DestDir(k) \o <<Filename(k)>>

-----------------------------------------------------------------------------
(* The filesystem operations the script calls.                             *)

\* Path.exists()
Exists(f, p) == p \in DOMAIN f

\* os.path.isdir()
IsDir(f, p) == p \in DOMAIN f /\ f[p] = DIR

Parent(p) == SubSeq(p, 1, Len(p) - 1)

\* f with node v at path p (created or replaced)
Put(f, p, v) == [q \in DOMAIN f \cup {p} |-> IF q = p THEN v ELSE f[q]]

\* f without path p
Remove(f, p) == [q \in DOMAIN f \ {p} |-> f[q]]

\* The failures the environment may inject into dest_dir.mkdir(): none, or
\* os.mkdir raising (say PermissionError) at the given directory.
MkdirFaults == {"none", "docs", "subdir"}

FaultPath(k, fault) ==
    IF fault = "docs" THEN DOCS
    ELSE IF fault = "subdir" /\ Subdir(k) # "" THEN DestDir(k)
    ELSE <<"<no fault>">>

\* MkdirOne with a bug: a regular file in the way is replaced by the directory.
MkdirOne_Clobber(f, p, faultAt) ==
    IF p = faultAt THEN [ok |-> FALSE, fs |-> f]
    ELSE IF f[Parent(p)] # DIR THEN [ok |-> FALSE, fs |-> f]
    ELSE [ok |-> TRUE, fs |-> Put(f, p, DIR)]

\* os.mkdir(p) where Parent(p) exists: raises when the environment refuses,
\* when the parent is no directory (NotADirectoryError), and when p exists;
\* Path.mkdir(exist_ok=True) swallows the last one iff p is a directory.
MkdirOne(f, p, faultAt) ==
    IF p = faultAt THEN [ok |-> FALSE, fs |-> f]
    ELSE IF f[Parent(p)] # DIR THEN [ok |-> FALSE, fs |-> f]
    ELSE IF p \in DOMAIN f THEN [ok |-> f[p] = DIR, fs |-> f]
    ELSE [ok |-> TRUE, fs |-> Put(f, p, DIR)]

RECURSIVE Mkdir(_, _, _)
\* Path.mkdir(parents=True, exist_ok=True): on FileNotFoundError the parent
\* is made first (recursively), then the directory itself.
Mkdir(f, p, faultAt) ==
    IF p = ROOT THEN [ok |-> TRUE, fs |-> f]
    ELSE IF Parent(p) \notin DOMAIN f
         THEN LET r == Mkdir(f, Parent(p), faultAt)
              IN  IF r.ok THEN MkdirOne(r.fs, p, faultAt) ELSE r
         ELSE MkdirOne(f, p, faultAt)

\* The ways the environment lets shutil.move end: "ok" (os.rename, or copy
\* and unlink, succeeded), "fail" (os.rename and the copy both raised, nothing
\* changed), "copied" (os.rename raised, the copy was made, os.unlink(src)
\* raised).
MoveFaults == {"ok", "fail", "copied"}

\* Move with a bug: an existing destination is a collision error.
Move_NoOverwrite(f, src, dst, how) ==
    IF Exists(f, dst) \/ how = "fail" THEN [ok |-> FALSE, fs |-> f]
    ELSE IF how = "ok"
      THEN [ok |-> TRUE, fs |-> Remove(Put(f, dst, f[src]), src)]
    ELSE [ok |-> FALSE, fs |-> Put(f, dst, f[src])]

\* Move with a bug: the file is copied and the source is never unlinked.
Move_KeepSource(f, src, dst, how) ==
    LET real_dst == IF IsDir(f, dst) THEN dst \o <<src[Len(src)]>> ELSE dst
    IN  IF IsDir(f, dst) /\ Exists(f, real_dst)
          THEN [ok |-> FALSE, fs |-> f]
        ELSE IF how = "ok"
          THEN [ok |-> TRUE, fs |-> Put(f, real_dst, f[src])]
        ELSE IF how = "copied"
          THEN [ok |-> FALSE, fs |-> Put(f, real_dst, f[src])]
        ELSE [ok |-> FALSE, fs |-> f]

\* shutil.move(src, dst) of a regular file: a destination that is a
\* directory receives the file inside it, and shutil.Error is raised when
\* that inner path exists; otherwise the destination is replaced.
Move(f, src, dst, how) ==
    LET real_dst == IF IsDir(f, dst) THEN dst \o <<src[Len(src)]>> ELSE dst
    IN  IF IsDir(f, dst) /\ Exists(f, real_dst)
          THEN [ok |-> FALSE, fs |-> f]
        ELSE IF how = "ok"
          THEN [ok |-> TRUE, fs |-> Remove(Put(f, real_dst, f[src]), src)]
        ELSE IF how = "copied"
          THEN [ok |-> FALSE, fs |-> Put(f, real_dst, f[src])]
        ELSE [ok |-> FALSE, fs |-> f]

-----------------------------------------------------------------------------
(* One run of main() as a record: the filesystem it sees, the loop index,  *)
(* the position in the loop body, the two counters and what was printed.   *)

Notice(kind, k) == [kind |-> kind, filename |-> Filename(k)]

Env(mk, mv) == [mkdir |-> mk, move |-> mv]

\* StepCheck with a bug: the destination directory is made before the
\* existence check.
StepCheck_MkdirFirst(st) ==
    LET made == Mkdir(st.fs, DestDir(st.idx), <<"<no fault>">>).fs
    IN  IF ~Exists(st.fs, Source(st.idx))
        THEN [st EXCEPT !.fs = made,
                        !.output = Append(@, Notice("skipped", st.idx)),
                        !.skipped_count = @ + 1,
                        !.idx = @ + 1]
        ELSE [st EXCEPT !.fs = made, !.pc = "mkdir"]

\* StepCheck with a bug: an entry whose destination exists is taken for
\* already moved and skipped.
StepCheck_SkipIfDestExists(st) ==
    IF ~Exists(st.fs, Source(st.idx)) \/ Exists(st.fs, Dest(st.idx))
    THEN [st EXCEPT !.output = Append(@, Notice("skipped", st.idx)),
                    !.skipped_count = @ + 1,
                    !.idx = @ + 1]
    ELSE [st EXCEPT !.pc = "mkdir"]

\* for filename, subdir in FILE_MAPPINGS: ... if not source.exists(): skip
StepCheck(st) ==
    IF ~Exists(st.fs, Source(st.idx))
    THEN [st EXCEPT !.output = Append(@, Notice("skipped", st.idx)),
                    !.skipped_count = @ + 1,
                    !.idx = @ + 1]
    ELSE [st EXCEPT !.pc = "mkdir"]

\* dest_dir.mkdir(parents=True, exist_ok=True), outside the try block: an
\* exception here leaves main()
StepMkdir(st, env) ==
    LET r == Mkdir(st.fs, DestDir(st.idx), FaultPath(st.idx, env.mkdir))
    IN  [st EXCEPT !.fs = r.fs,
                   !.pc = IF r.ok THEN "move" ELSE "crashed"]

\* StepMove with a bug: the except branch prints the error and leaves the loop.
StepMove_AbortOnError(st, env) ==
    LET r == Move(st.fs, Source(st.idx), Dest(st.idx), env.move)
    IN  IF r.ok
        THEN [st EXCEPT !.fs = r.fs,
                        !.output = Append(@, Notice("moved", st.idx)),
                        !.moved_count = @ + 1,
                        !.idx = @ + 1,
                        !.pc = "check"]
        ELSE [st EXCEPT !.fs = r.fs,
                        !.output = Append(@, Notice("error", st.idx)),
                        !.idx = NumEntries + 1,
                        !.pc = "check"]

\* try: shutil.move(...); moved_count += 1  except Exception: print error
StepMove(st, env) ==
    LET r == Move(st.fs, Source(st.idx), Dest(st.idx), env.move)
    IN  IF r.ok
        THEN [st EXCEPT !.fs = r.fs,
                        !.output = Append(@, Notice("moved", st.idx)),
                        !.moved_count = @ + 1,
                        !.idx = @ + 1,
                        !.pc = "check"]
        ELSE [st EXCEPT !.fs = r.fs,
                        !.output = Append(@, Notice("error", st.idx)),
                        !.idx = @ + 1,
                        !.pc = "check"]

\* StepSummary with a bug: the two counters are printed in the wrong order.
StepSummary_Swapped(st) ==
    [st EXCEPT !.summary = <<st.skipped_count, st.moved_count>>,
               !.pc = "done"]

\* print(f"Summary: {moved_count} moved, {skipped_count} skipped")
StepSummary(st) ==
    [st EXCEPT !.summary = <<st.moved_count, st.skipped_count>>,
               !.pc = "done"]

Ended(st) == st.pc \in {"done", "crashed", "killed"}

\* The next step of a run under the environment's choices env.
Step(st, env) ==
    IF Ended(st) THEN st
    ELSE IF st.pc = "mkdir" THEN StepMkdir(st, env)
    ELSE IF st.pc = "move" THEN StepMove(st, env)
    ELSE IF st.idx <= NumEntries THEN StepCheck(st)
    ELSE StepSummary(st)

\* main()'s locals at its first line, on filesystem f.
StartOfMain(f) ==
    [fs |-> f, idx |-> 1, pc |-> "check", moved_count |-> 0,
     skipped_count |-> 0, output |-> << >>, summary |-> << >>]

RECURSIVE RunToEnd(_)
\* main() run from st to its end with no fault injected: what a single,
\* uninterrupted run makes of the filesystem.
RunToEnd(st) ==
    IF Ended(st) THEN st ELSE RunToEnd(Step(st, Env("none", "ok")))

-----------------------------------------------------------------------------
(* State.                                                                  *)

VARIABLES
    fs,             \* the filesystem below the project root
    idx,            \* position of the for loop in FILE_MAPPINGS (1-based)
    pc,             \* "check", "mkdir", "move", "done", "crashed", "killed"
    moved_count,
    skipped_count,
    output,         \* the per-entry notices printed so far
    summary,        \* << >>, or <<moved, skipped>> once the summary is printed
    twin,           \* the same run, same start, had every failing move worked
    fs0,            \* the filesystem before the first run
    fsStart,        \* the filesystem when the current run started
    phase,          \* "first" or "second" invocation of main()
    prevEnd,        \* how the previous run ended ("none" in the first run)
    prevMoved,      \* the filenames the previous run reported as moved
    prevErrors      \* whether the previous run printed an error notice

run == <<fs, idx, pc, moved_count, skipped_count, output, summary>>

history == <<fs0, fsStart, phase, prevEnd, prevMoved, prevErrors>>

vars == <<run, twin, history>>

\* The current run as a record.
Cur ==
    [fs |-> fs, idx |-> idx, pc |-> pc, moved_count |-> moved_count,
     skipped_count |-> skipped_count, output |-> output, summary |-> summary]

\* The run's variables take the values of record st.
Becomes(st) ==
    /\ fs' = st.fs
    /\ idx' = st.idx
    /\ pc' = st.pc
    /\ moved_count' = st.moved_count
    /\ skipped_count' = st.skipped_count
    /\ output' = st.output
    /\ summary' = st.summary

-----------------------------------------------------------------------------
(* Initial filesystems.  The table files that may be present at the root   *)
(* or at their destination are the first few of Candidates; every other    *)
(* table file is absent from the root and from docs.  README.md (root) and *)
(* docs/index.md are files the table does not name.                        *)

Candidates == <<"QUICK_FIX_DUPLICATE_COMPONENTS.md", "SETUP_COMPLETE.md",
                "NEXT_ACTIONS.md", "SECRETS_SETUP_COMPLETE.md",
                "CI_CD_READY.md">>

Index(name) == CHOOSE k \in 1..NumEntries : Filename(k) = name

\* The table indices of the first n candidates.
Cand(n) ==
    {Index(Candidates[j]) : j \in {i \in 1..Len(Candidates) : i <= n}}

CandSubdirs(C) == {Subdir(k) : k \in C} \ {""}

\* What may sit at a candidate's source and destination: the source is a
\* regular file or absent; the destination is absent, a regular file, an
\* empty directory, or a directory already holding a file of that name.
CandShapes ==
    {<<TRUE, d>> : d \in {"absent", "file", "dir", "dirfull"}}
        \cup {<<FALSE, d>> : d \in {"absent", "file"}}

Layouts(C) ==
    {l \in [docs : {"absent", "file", "dir"},
            sub : [CandSubdirs(C) -> {"absent", "file", "dir"}],
            cand : [C -> CandShapes]] :
        /\ l.docs # "dir" => \A c \in CandSubdirs(C) : l.sub[c] = "absent"
        /\ \A k \in C :
              l.cand[k][2] # "absent" =>
                  IF Subdir(k) = "" THEN l.docs = "dir"
                  ELSE l.sub[Subdir(k)] = "dir"}

NodeOf(shape) == IF shape = "dir" THEN DIR ELSE "not a directory"

LayoutNodes(l, C) ==
    {<<ROOT, DIR>>, <<ROOT \o <<"README.md">>, "readme">>}
    \cup (IF l.docs = "absent" THEN {} ELSE {<<DOCS, NodeOf(l.docs)>>})
    \cup (IF l.docs = "dir" THEN {<<DOCS \o <<"index.md">>, "index">>} ELSE {})
    \cup {<<DOCS \o <<c>>, NodeOf(l.sub[c])>> :
              c \in {c \in CandSubdirs(C) : l.sub[c] # "absent"}}
    \cup {<<Source(k), Filename(k)>> : k \in {k \in C : l.cand[k][1]}}
    \cup {<<Dest(k), "old">> : k \in {k \in C : l.cand[k][2] = "file"}}
    \cup {<<Dest(k), DIR>> :
              k \in {k \in C : l.cand[k][2] \in {"dir", "dirfull"}}}
    \cup {<<Dest(k) \o <<Filename(k)>>, "inner">> :
              k \in {k \in C : l.cand[k][2] = "dirfull"}}

FsOf(l, C) ==
    LET nodes == LayoutNodes(l, C)
    IN  [p \in {n[1] : n \in nodes} |-> (CHOOSE n \in nodes : n[1] = p)[2]]

\* The state when main() is first invoked, the candidates being C.
InitWith(C) ==
    /\ \E l \in Layouts(C) : fs = FsOf(l, C)
    /\ fs0 = fs
    /\ fsStart = fs
    /\ idx = 1
    /\ pc = "check"
    /\ moved_count = 0
    /\ skipped_count = 0
    /\ output = << >>
    /\ summary = << >>
    /\ twin = StartOfMain(fs)
    /\ phase = "first"
    /\ prevEnd = "none"
    /\ prevMoved = {}
    /\ prevErrors = FALSE

Init == InitWith(Cand(MaxPresent))

InitRerun == InitWith(Cand(MaxRerunPresent))

-----------------------------------------------------------------------------
(* Actions: the steps of main().                                           *)

\* Line 67: the existence check of the entry at idx (and the skip branch).
CheckExists ==
    /\ pc = "check"
    /\ idx <= NumEntries
    /\ Becomes(StepCheck(Cur))
    /\ twin' = Step(twin, Env("none", "ok"))
    /\ UNCHANGED history

\* Lines 72-77: the destination directory is computed and created.
EnsureDir ==
    /\ pc = "mkdir"
    /\ \E mk \in MkdirFaults :
          /\ Becomes(StepMkdir(Cur, Env(mk, "ok")))
          /\ twin' = Step(twin, Env(mk, "ok"))
    /\ UNCHANGED history

\* Lines 78-85: the move, its notice and its counter.
MoveFile ==
    /\ pc = "move"
    /\ \E mv \in MoveFaults :
          /\ Becomes(StepMove(Cur, Env("none", mv)))
          /\ twin' = Step(twin, Env("none", "ok"))
    /\ UNCHANGED history

\* Line 87: the loop is over, the summary is printed.
PrintSummary ==
    /\ pc = "check"
    /\ idx > NumEntries
    /\ Becomes(StepSummary(Cur))
    /\ twin' = Step(twin, Env("none", "ok"))
    /\ UNCHANGED history

\* What a filesystem call in flight may have done when the process is cut
\* off: nothing, the parent directory made and not yet the directory, the
\* file copied and not yet unlinked.
InFlight(st) ==
    {st.fs}
    \cup (IF st.pc = "mkdir" THEN {Mkdir(st.fs, DOCS, <<"<no fault>">>).fs}
          ELSE {})
    \cup (IF st.pc = "move"
          THEN {Move(st.fs, Source(st.idx), Dest(st.idx), "copied").fs}
          ELSE {})

\* The first run is cut off (killed) between two filesystem operations.
Interrupt ==
    /\ phase = "first"
    /\ ~Ended(Cur)
    /\ \E f \in InFlight(Cur) : fs' = f
    /\ pc' = "killed"
    /\ UNCHANGED <<idx, moved_count, skipped_count, output, summary, twin,
                   history>>

MovedNames(out) ==
    {out[j].filename : j \in {i \in 1..Len(out) : out[i].kind = "moved"}}

HasError(out) == \E j \in 1..Len(out) : out[j].kind = "error"

\* main() is invoked a second time, on the filesystem the first run left.
Rerun ==
    /\ phase = "first"
    /\ Ended(Cur)
    /\ Becomes(StartOfMain(fs))
    /\ twin' = StartOfMain(fs)
    /\ fsStart' = fs
    /\ phase' = "second"
    /\ prevEnd' = pc
    /\ prevMoved' = MovedNames(output)
    /\ prevErrors' = HasError(output)
    /\ UNCHANGED fs0

Next == CheckExists \/ EnsureDir \/ MoveFile \/ PrintSummary

NextRerun == Next \/ Interrupt \/ Rerun

\* One invocation of main().
Spec == Init /\ [][Next]_vars

\* Two invocations of main(), the first possibly cut off.
SpecRerun == InitRerun /\ [][NextRerun]_vars

-----------------------------------------------------------------------------
(* Properties.                                                             *)

\* The table entries whose source exists in filesystem f.
PresentAt(f) == {k \in 1..NumEntries : Exists(f, Source(k))}

\* The entries the loop has started on.
Started == IF pc \in {"mkdir", "move", "crashed"} THEN idx ELSE idx - 1

\* The run is over: the summary was printed, or an exception left main().
Terminated == pc \in {"done", "crashed"}

IsFile(f, p) == Exists(f, p) /\ f[p] # DIR

\* C1: no error is fatal to a run: whatever filesystem operation fails, the
\* run is never left by an exception before the summary line (it goes on to
\* visit every entry of FILE_MAPPINGS and prints the summary).
C1_NoErrorIsFatal == pc # "crashed"

\* C2: for every entry whose source exists before the run, after the run the
\* file is at <docs>/<category>/<filename> (<docs>/<filename> for the empty
\* category) and no longer at the source, unless the move of that entry
\* failed, in which case the file is still at the source.
C2_MovedOrStillAtSource ==
    Terminated =>
        \A k \in PresentAt(fs0) :
            \/ /\ IsFile(fs, Dest(k))
               /\ fs[Dest(k)] = fs0[Source(k)]
               /\ ~Exists(fs, Source(k))
            \/ /\ k <= Len(output)
               /\ output[k] = Notice("error", k)
               /\ IsFile(fs, Source(k))
               /\ fs[Source(k)] = fs0[Source(k)]

\* C3: a move failure on one entry stops no later entry from being processed
\* and changes no other entry's outcome or counter contribution: compared
\* with the run from the same start in which the failing moves succeed
\* (twin), the run is at the same entry and position, has printed the same
\* notice for every entry but the failing ones (error instead of moved), has
\* the same skipped_count, and its moved_count is lower by exactly the number
\* of failing entries.
C3_MoveFailureIsLocal ==
    LET failing == {k \in 1..Len(output) : output[k] # twin.output[k]}
    IN  /\ twin.idx = idx
        /\ twin.pc = pc
        /\ Len(twin.output) = Len(output)
        /\ \A k \in failing :
              /\ output[k] = Notice("error", k)
              /\ twin.output[k] = Notice("moved", k)
        /\ twin.skipped_count = skipped_count
        /\ twin.moved_count = moved_count + Cardinality(failing)
        /\ pc = "done" =>
              twin.summary = <<summary[1] + Cardinality(failing), summary[2]>>

\* C3 witness: a finished run in which one entry's move failed (and succeeds
\* in the twin) and a later entry was moved.
C3_Witness ==
    /\ pc = "done"
    /\ \E j, k \in 1..Len(output) :
          /\ j < k
          /\ output[j].kind = "error"
          /\ twin.output[j].kind = "moved"
          /\ output[k].kind = "moved"

C5_AbsentSourceOnlySkips ==
    /\ \A k \in 1..Len(output) :
          ~Exists(fs0, Source(k)) <=> output[k] = Notice("skipped", k)
    /\ skipped_count =
          Cardinality({k \in 1..Len(output) : ~Exists(fs0, Source(k))})
    /\ \A d \in DOMAIN fs \ DOMAIN fs0 :
          fs[d] = DIR =>
              \E k \in PresentAt(fs0) :
                  k <= Started /\ d \in {DOCS, DestDir(k)}
    /\ PresentAt(fs0) = {} =>
          /\ pc \in {"check", "done"}
          /\ fs = fs0
          /\ moved_count = 0
          /\ pc = "done" => summary = <<0, NumEntries>>

\* C5 witness: a finished run on a root holding no table file, docs absent
\* before and after.
C5_Witness ==
    /\ pc = "done"
    /\ PresentAt(fs0) = {}
    /\ skipped_count = NumEntries
    /\ ~Exists(fs0, DOCS)
    /\ ~Exists(fs, DOCS)

\* C6: the summary line reports moved = number of entries whose move
\* succeeded (their source is gone) and skipped = number of entries whose
\* source was absent; with k table files present and no move failing it reads
\* "k moved, N-k skipped", N = 35; a root holding only SETUP_COMPLETE.md and
\* NEXT_ACTIONS.md ends with docs/setup/SETUP_COMPLETE.md and
\* docs/roadmap/NEXT_ACTIONS.md present, the two gone from the root, and
\* "2 moved, 33 skipped".
C6_SummaryCounts ==
    pc = "done" =>
        /\ summary = <<moved_count, skipped_count>>
        /\ summary[1] = Cardinality(PresentAt(fs0) \ PresentAt(fs))
        /\ summary[2] = NumEntries - Cardinality(PresentAt(fs0))
        /\ ~HasError(output) =>
              summary = <<Cardinality(PresentAt(fs0)),
                          NumEntries - Cardinality(PresentAt(fs0))>>
        /\ ( /\ ~HasError(output)
             /\ PresentAt(fs0) =
                   {Index("SETUP_COMPLETE.md"), Index("NEXT_ACTIONS.md")} ) =>
              /\ Exists(fs, DOCS \o <<"setup", "SETUP_COMPLETE.md">>)
              /\ Exists(fs, DOCS \o <<"roadmap", "NEXT_ACTIONS.md">>)
              /\ ~Exists(fs, ROOT \o <<"SETUP_COMPLETE.md">>)
              /\ ~Exists(fs, ROOT \o <<"NEXT_ACTIONS.md">>)
              /\ NumEntries = 35
              /\ summary = <<2, 33>>

\* C6 witness: the run on a root holding exactly SETUP_COMPLETE.md and
\* NEXT_ACTIONS.md has printed "2 moved, 33 skipped".
C6_Witness ==
    /\ pc = "done"
    /\ PresentAt(fs0) = {Index("SETUP_COMPLETE.md"), Index("NEXT_ACTIONS.md")}
    /\ summary = <<2, 33>>

\* C7: every entry is processed at most once, in table order, and ends in
\* exactly one of skipped (iff its source was absent), moved or error (only
\* when the source was present); so moved_count + skipped_count never exceeds
\* the number of entries processed so far, with equality at the end exactly
\* when no move failed.
C7_OneOutcomePerEntry ==
    /\ \A k \in 1..Len(output) :
          /\ output[k].filename = Filename(k)
          /\ output[k].kind \in {"skipped", "moved", "error"}
          /\ output[k].kind = "skipped" <=> ~Exists(fs0, Source(k))
    /\ moved_count + skipped_count <= Started
    /\ Terminated =>
          /\ Len(output) = Started
          /\ (moved_count + skipped_count = Started) <=> ~HasError(output)

\* C8: re-running recovers an interrupted run: when the first run was cut off
\* between two filesystem operations and the second run completes with no
\* move failing, the filesystem is what a single uninterrupted run makes of
\* the original one, and every file the interrupted run reported as moved is
\* reported as skipped.
C8_RerunRecovers ==
    (phase = "second" /\ prevEnd = "killed" /\ pc = "done"
        /\ ~HasError(output)) =>
        /\ fs = RunToEnd(StartOfMain(fs0)).fs
        /\ \A k \in 1..NumEntries :
              Filename(k) \in prevMoved => output[k] = Notice("skipped", k)

\* C8 witness: the first run was cut off after it had moved one file, between
\* the copy and the unlink of the move of another (which is then at the root
\* and at its destination); the second run skipped the first, moved the other
\* and finished.
C8_Witness ==
    /\ phase = "second"
    /\ prevEnd = "killed"
    /\ pc = "done"
    /\ ~HasError(output)
    /\ prevMoved # {}
    /\ \E k \in PresentAt(fsStart) :
          /\ IsFile(fsStart, Dest(k))
          /\ fsStart[Dest(k)] = fsStart[Source(k)]
          /\ ~Exists(fs0, Dest(k))
          /\ output[k] = Notice("moved", k)
          /\ ~Exists(fs, Source(k))

\* C9: when the source exists and a file is already at the destination path,
\* a successful move replaces it: the destination holds the source's content
\* (the previous content is gone), the source path is empty, the entry is
\* counted as moved, nothing appears under another name, and the existing
\* file is no collision error (the move fails only if the environment makes
\* it fail: in the twin it never does).
C9_MoveReplacesDestination ==
    LET collide == {k \in PresentAt(fs0) : IsFile(fs0, Dest(k))}
    IN  /\ \A k \in collide :
              (k <= Len(output) /\ output[k] = Notice("moved", k)) =>
                  /\ fs[Dest(k)] = fs0[Source(k)]
                  /\ fs[Dest(k)] # fs0[Dest(k)]
                  /\ ~Exists(fs, Source(k))
                  /\ ~Exists(fs, Dest(k) \o <<Filename(k)>>)
        /\ \A k \in collide :
              k <= Len(twin.output) => twin.output[k] = Notice("moved", k)
        /\ moved_count =
              Cardinality({k \in 1..Len(output) : output[k].kind = "moved"})

\* C9 witness: a finished run moved a file onto an existing file.
C9_Witness ==
    /\ pc = "done"
    /\ \E k \in 1..NumEntries :
          /\ IsFile(fs0, Dest(k))
          /\ fs0[Dest(k)] = "old"
          /\ output[k] = Notice("moved", k)
          /\ fs[Dest(k)] = Filename(k)

====
